---- MODULE Spec2Model ----
(***************************************************************************)
(* The notebook "P6_Intro_to_CNN": the class CNN (its constructor, the     *)
(* shapes its forward pass produces and the scores it computes), the SGD   *)
(* optimizer built on the model's parameters, the functions train and      *)
(* validate, the training loop that calls them epoch after epoch, and the  *)
(* cell that applies the model to one batch of examples.                   *)
(*                                                                         *)
(* A tensor is modelled by its shape; every parameter tensor by one        *)
(* representative element.  Real numbers are modelled by integers, and a   *)
(* true division a / b by the fraction [num |-> a, den |-> b].  What the   *)
(* numeric library computes from the pixel values (the loss of a batch,    *)
(* the gradient autodiff adds, the score rows) is drawn from small sets.   *)
(***************************************************************************)
EXTENDS Integers, Sequences, FiniteSets, TLC

(* ------------------------------ bounds -------------------------------- *)
MaxFeature == 2
MaxSamples == 3
MaxBatchSize == 2
MaxCalls == 2
MaxEpochs == 2

(* ------------------------- program constants -------------------------- *)
ImageSize == 28
InChannels == 1
KernelSize == 5
PoolSize == 2
Hidden == 50
NumClasses == 10
NFeature == 6
OutputSize == 10
Epochs == 10

OutputSizes == {2, OutputSize}

ParamNames ==
  {"conv1.weight", "conv1.bias", "conv2.weight", "conv2.bias",
   "fc1.weight", "fc1.bias", "fc2.weight", "fc2.bias"}

(* ------------------------ tensors (as shapes) ------------------------- *)
Tensor(s) == [ok |-> TRUE, shape |-> s]

ShapeError == [ok |-> FALSE, shape |-> <<>>]

RECURSIVE Numel(_)
Numel(s) == IF s = <<>> THEN 1 ELSE Head(s) * Numel(Tail(s))

\* o = floor((n + 2p - f) / s) + 1
ConvOut(n, f, p, s) == ((n + 2 * p - f) \div s) + 1

\* nn.Conv2d(in, out, kernel_size = k): stride 1, padding 0
Conv2d(layer, x) ==
  IF ~x.ok THEN x
  ELSE IF Len(x.shape) # 4 \/ x.shape[2] # layer.in
          \/ x.shape[3] < layer.k \/ x.shape[4] < layer.k
       THEN ShapeError
       ELSE Tensor(<<x.shape[1], layer.out,
                     ConvOut(x.shape[3], layer.k, 0, 1),
                     ConvOut(x.shape[4], layer.k, 0, 1)>>)

\* F.relu keeps the shape
Relu(x) == x

\* nn.MaxPool2d(kernel_size = k): stride defaults to the kernel size
MaxPool2d(layer, x) ==
  IF ~x.ok THEN x
  ELSE IF Len(x.shape) # 4 \/ x.shape[3] < layer.k \/ x.shape[4] < layer.k
       THEN ShapeError
       ELSE Tensor(<<x.shape[1], x.shape[2],
                     ConvOut(x.shape[3], layer.k, 0, layer.k),
                     ConvOut(x.shape[4], layer.k, 0, layer.k)>>)

\* x.view(-1, w): the elements are regrouped into rows of w; it fails only
\* when the number of elements is not a multiple of w
View(x, w) ==
  IF ~x.ok THEN x
  ELSE IF Numel(x.shape) % w # 0 THEN ShapeError
       ELSE Tensor(<<Numel(x.shape) \div w, w>>)

\* nn.Linear(in, out) applied to a (rows, width) tensor
Linear(layer, x) ==
  IF ~x.ok THEN x
  ELSE IF x.shape[Len(x.shape)] # layer.in THEN ShapeError
       ELSE Tensor(<<x.shape[1], layer.out>>)

(* ------------------------------- CNN ---------------------------------- *)
\* CNN.__init__(n_feature, output_size); flat is the width forward's view uses
CNN(n_feature, output_size) ==
  [n_feature |-> n_feature,
   conv1 |-> [in |-> InChannels, out |-> n_feature, k |-> KernelSize],
   conv2 |-> [in |-> n_feature, out |-> n_feature, k |-> KernelSize],
   fc1 |-> [in |-> n_feature, out |-> Hidden],
   fc2 |-> [in |-> Hidden, out |-> NumClasses],
   maxpool |-> [k |-> PoolSize],
   flat |-> n_feature]

\* the tensor that reaches the view of forward
Features(m, x) ==
  MaxPool2d(m.maxpool, Relu(Conv2d(m.conv2,
    MaxPool2d(m.maxpool, Relu(Conv2d(m.conv1, x))))))

\* CNN.forward
Forward(m, x) ==
  Linear(m.fc2, Relu(Linear(m.fc1, View(Features(m, x), m.flat))))

Images(b) == Tensor(<<b, InChannels, ImageSize, ImageSize>>)

(* ----------------------- the values forward computes ------------------ *)
\* An image is taken with one value x in all its pixels, and w names the one
\* value standing for every element of each parameter tensor.

\* the pixel values of an image, after Normalize
Pixels == {-1, 0, 2}

\* one output element of nn.Conv2d: in * k * k products and the bias
ConvValue(layer, w, b, x) == layer.in * layer.k * layer.k * w * x + b

\* F.relu
ReluValue(x) == IF x > 0 THEN x ELSE 0

\* one output element of nn.MaxPool2d: the largest of the values found in a
\* pooling window
MaxPoolValue(win) == CHOOSE v \in win : \A u \in win : u <= v

\* the values found in a window whose elements all hold x
Window(x) == {x}

\* one output element of nn.Linear: in products and the bias
LinearValue(layer, w, b, x) == layer.in * w * x + b

\* a softmax ending forward: one score shared by all the classes makes every
\* probability 1 / NumClasses, the unit this value is counted in
SoftmaxValue(m, w, x) == NumClasses \div NumClasses

\* CNN.forward, the score of every class for an image of pixel value x
Logit(m, w, x) ==
  LET c1 == ReluValue(ConvValue(m.conv1, w["conv1.weight"], w["conv1.bias"], x))
      p1 == MaxPoolValue(Window(c1))
      c2 == ReluValue(ConvValue(m.conv2, w["conv2.weight"], w["conv2.bias"], p1))
      p2 == MaxPoolValue(Window(c2))
      h  == ReluValue(LinearValue(m.fc1, w["fc1.weight"], w["fc1.bias"], p2))
  IN  LinearValue(m.fc2, w["fc2.weight"], w["fc2.bias"], h)

(* ---------------------------- optimizer ------------------------------- *)
\* the arguments of torch.optim.SGD(model.parameters(), lr, momentum,
\* weight_decay); dampening 0, no nesterov
OptConfigs ==
  {[lr |-> 1, momentum |-> 0, weight_decay |-> 0],
   [lr |-> 2, momentum |-> 2, weight_decay |-> 1]}

\* zero_grad left out: the gradients stay as they are
ZeroGradKept(g) == g

\* optimizer.zero_grad()
ZeroGrad(g) == [p \in ParamNames |-> 0]

\* loss.backward(): autodiff adds the batch's gradient d to what .grad holds
Backward(g, d) == [p \in ParamNames |-> g[p] + d[p]]

\* SGD, weight decay: d_p = grad + weight_decay * param
DecayedGrad(o, w, g) ==
  IF o.weight_decay # 0 THEN g + o.weight_decay * w ELSE g

\* a momentum buffer that every step starts afresh
MomentumBufferFresh(o, b, d) == IF o.momentum = 0 THEN b ELSE <<d>>

\* SGD, momentum buffer: absent (<<>>) until the first step, which stores d_p
MomentumBuffer(o, b, d) ==
  IF o.momentum = 0 THEN b
  ELSE IF b = <<>> THEN <<d>>
       ELSE <<o.momentum * b[1] + d>>

\* SGD, the new value of one parameter
SGDParam(o, w, g, b) ==
  LET d == DecayedGrad(o, w, g)
  IN  IF o.momentum # 0 THEN w - o.lr * MomentumBuffer(o, b, d)[1]
      ELSE w - o.lr * d

(* ----------------------------- data loader ---------------------------- *)
\* what is wrong with the first batch a loader yields: nothing, one label
\* more than there are images, or a label that is no class index
Faults == {"none", "length", "label"}

\* DataLoader(dataset, batch_size): n is len(loader.dataset)
Loaders ==
  {ld \in [n : 0..MaxSamples, batch_size : 1..MaxBatchSize, fault : Faults] :
     ld.fault # "none" => ld.n > 0}

\* len(loader)
NumBatches(ld) == (ld.n + ld.batch_size - 1) \div ld.batch_size

\* len(data) of the batch with index k (0-based): the last one may be short
BatchLen(ld, k) ==
  IF (k + 1) * ld.batch_size <= ld.n THEN ld.batch_size
  ELSE ld.n - k * ld.batch_size

\* the label of sample i of the dataset
Label(i) == i % 2

\* target of the batch with index k
Targets(ld, k) ==
  LET tg == [i \in 1..BatchLen(ld, k) |-> Label(k * ld.batch_size + i - 1)]
  IN  IF k # 0 \/ ld.fault = "none" THEN tg
      ELSE IF ld.fault = "length" THEN Append(tg, Label(BatchLen(ld, k)))
      ELSE [tg EXCEPT ![1] = NumClasses]

(* ------------------------ what the library draws ---------------------- *)
\* loss.item() of a batch of validate, while finite: the mean over the batch
\* of the per-sample loss
LossVals == {3}

\* loss.item() as a float: finite, or the float inf (the loss overflowed);
\* the field loss is the value while finite
LossItems ==
  {[loss |-> v, finite |-> TRUE] : v \in LossVals}
    \cup {[loss |-> 0, finite |-> FALSE]}

\* a batch's loss and its gradient, per parameter, as train sees them (the
\* gradient of an overflowed cross entropy is still softmax - onehot, finite)
BatchResults ==
  {[loss |-> 1, finite |-> TRUE, grad |-> [p \in ParamNames |-> 1]],
   [loss |-> 3, finite |-> TRUE,
    grad |-> [p \in ParamNames |->
                IF p \in {"fc1.bias", "fc2.bias"} THEN 2 ELSE -1]],
   [loss |-> 0, finite |-> FALSE, grad |-> [p \in ParamNames |-> 1]]}

ScoreRow(hot) == [c \in 1..NumClasses |-> IF c - 1 \in hot THEN 1 ELSE 0]

\* the score rows forward may produce (column c - 1 of a row is class c - 1)
ScoreRows == {ScoreRow({}), ScoreRow({1, 2})}

RECURSIVE ScanLast(_, _, _)
ScanLast(row, i, best) ==
  IF i > Len(row) THEN best - 1
  ELSE ScanLast(row, i + 1, IF row[i] >= row[best] THEN i ELSE best)

\* the index of the last maximal value of a row
ArgMaxLast(row) == ScanLast(row, 2, 1)

\* output.data.max(1)[1] for one row: the index of the first maximal value
RECURSIVE Scan(_, _, _)
Scan(row, i, best) ==
  IF i > Len(row) THEN best - 1
  ELSE Scan(row, i + 1, IF row[i] > row[best] THEN i ELSE best)

ArgMax(row) == Scan(row, 2, 1)

\* pred.eq(target.view_as(pred)).sum().item()
CountEq(pr, tg) == Cardinality({i \in 1..Len(pr) : pr[i] = tg[i]})

\* torch.nn.CrossEntropyLoss: the rows of output must match len(target), and
\* every label must index a column of output
CriterionAccepts(out, tg) ==
  /\ out.ok
  /\ out.shape[1] = Len(tg)
  /\ \A i \in 1..Len(tg) : tg[i] \in 0..(out.shape[2] - 1)

\* the exception that ends the batch: forward's, or else the criterion's
Raised(out, tg) ==
  IF ~out.ok THEN "RuntimeError"
  ELSE IF out.shape[1] # Len(tg) THEN "ValueError"
  ELSE "IndexError"

(* ------------------------------ state --------------------------------- *)
VARIABLES
  model,        \* the CNN object
  output_size,  \* the notebook's output_size, passed to CNN(...)
  optimizer,    \* the SGD object's hyperparameters
  param,        \* model.parameters(): the value of each parameter
  grad,         \* the .grad of each parameter
  buf,          \* the optimizer's momentum_buffer of each parameter
  training,     \* the module's mode: model.train() / model.eval()
  pc,           \* "idle", or the function being run: "train" / "validate"
  calls,        \* the number of calls of train and validate made so far
  loader,       \* the loader argument of the running call
  data,         \* local: the pixel value of each image of the last batch
  batch_idx,    \* the index of the next batch the loader yields
  output,       \* local: the tensor forward returned for the last batch
  scores,       \* local of validate: the rows of output that max reads
  target,       \* local: the labels of the last batch
  loss,         \* local: loss.item() of the last batch, while finite
  loss_isfinite,\* local: whether loss.item() of the last batch is finite
  sum_isfinite, \* whether the running total of the call is finite
  pred,         \* local of validate: the argmax of each row of output
  batch_grad,   \* what autodiff computed for the last batch's loss
  seen,         \* the batches the running call has processed, in order
  total_loss,   \* local of train
  val_loss,     \* local of validate
  correct,      \* local of validate
  accuracy,     \* local of validate
  ret,          \* the tuple of values the last call returned
  outcome,      \* how the last call ended
  train_loader, \* global: the loader the training loop hands to train
  val_loader,   \* global: the loader the training loop hands to validate
  epoch,        \* the training loop's epoch
  train_loss,   \* global: what train returned in this epoch
  losses,       \* global: the dict of the two lists of returned values
  dpc           \* where the training loop is: "loop", "train", "validate",
                \* or "raised" once an exception has left it

vars ==
  <<model, output_size, optimizer, param, grad, buf, training, pc, calls,
    loader, data, batch_idx, output, scores, target, loss, loss_isfinite,
    sum_isfinite, pred, batch_grad, seen, total_loss, val_loss, correct,
    accuracy, ret, outcome, train_loader, val_loader, epoch, train_loss,
    losses, dpc>>

objects == <<model, output_size, optimizer>>

\* the globals of the cell that holds the training loop
driver == <<train_loader, val_loader, epoch, train_loss, losses, dpc>>

\* the locals of a call, and what it hands back, before its first batch
FreshFrame ==
  /\ data' = <<>>
  /\ output' = Tensor(<<>>)
  /\ scores' = <<>>
  /\ target' = <<>>
  /\ loss' = 0
  /\ loss_isfinite' = TRUE
  /\ pred' = <<>>
  /\ batch_grad' = [p \in ParamNames |-> 0]
  /\ seen' = <<>>
  /\ accuracy' = [num |-> 0, den |-> 1]
  /\ ret' = <<>>
  /\ batch_idx' = 0
  /\ outcome' = "running"

Fraction(a, b) == [num |-> a, den |-> b]

\* the float inf, and a float total divided by b
Infinity == Fraction(1, 0)
FloatFraction(a, fin, b) == IF fin THEN Fraction(a, b) ELSE Infinity

\* one batch as the loop saw it: its index, its loss.item(), the rows of
\* output that were read and its labels
Processed(k, l, sc, tg) ==
  [idx |-> k, size |-> Len(tg), loss |-> l.loss, finite |-> l.finite,
   scores |-> sc, target |-> tg]

\* the width of one image's features when they reach the view of forward
FlatWidth(m) == Numel(Features(m, Images(1)).shape)

\* CNN objects with other widths declared for fc1 and used by the view
Modules(n, o) ==
  {[CNN(n, o) EXCEPT !.fc1.in = w, !.flat = v] :
     w \in {n, FlatWidth(CNN(n, o))}, v \in {n, FlatWidth(CNN(n, o))}}

\* the parameters train and validate start from
InitialParam == [p \in ParamNames |-> 1]

\* parameter values a freshly built or freshly zeroed model may hold: one
\* value in all the weights and one in all the biases
ParamInits ==
  {[p \in ParamNames |->
      IF p \in {"conv1.bias", "conv2.bias", "fc1.bias", "fc2.bias"}
      THEN b ELSE w] : w \in {0, 1}, b \in {0, 1}}

\* the loader train and validate were last handed, before any call
NoLoader == [n |-> 0, batch_size |-> 1, fault |-> "none"]

InitRest ==
  /\ optimizer \in OptConfigs
  /\ grad = [p \in ParamNames |-> 0]
  /\ buf = [p \in ParamNames |-> <<>>]
  /\ training = TRUE
  /\ pc = "idle"
  /\ calls = 0
  /\ loader = NoLoader
  /\ batch_idx = 0
  /\ data = <<>>
  /\ output = Tensor(<<>>)
  /\ scores = <<>>
  /\ target = <<>>
  /\ loss = 0
  /\ loss_isfinite = TRUE
  /\ sum_isfinite = TRUE
  /\ pred = <<>>
  /\ batch_grad = [p \in ParamNames |-> 0]
  /\ seen = <<>>
  /\ total_loss = 0
  /\ val_loss = 0
  /\ correct = 0
  /\ accuracy = Fraction(0, 1)
  /\ ret = <<>>
  /\ outcome = "none"
  /\ epoch = 0
  /\ train_loss = Fraction(0, 1)
  /\ losses = [train |-> <<>>, val |-> <<>>]
  /\ dpc = "loop"

\* the notebook as written: model = CNN(n_feature, output_size)
Init ==
  /\ output_size \in OutputSizes
  /\ \E n \in 1..MaxFeature : model = CNN(n, output_size)
  /\ param = InitialParam
  /\ train_loader = NoLoader
  /\ val_loader = NoLoader
  /\ InitRest

\* train and validate handed the notebook's CNN(6, output_size), as written
\* or with the widths of fc1 and of the view changed as Exercise 2 asks
InitModule ==
  /\ output_size = OutputSize
  /\ model \in Modules(NFeature, output_size)
  /\ param = InitialParam
  /\ train_loader = NoLoader
  /\ val_loader = NoLoader
  /\ InitRest

\* the same modules, holding any of the parameter values
InitForward ==
  /\ output_size = OutputSize
  /\ model \in Modules(NFeature, output_size)
  /\ param \in ParamInits
  /\ train_loader = NoLoader
  /\ val_loader = NoLoader
  /\ InitRest

\* the well-formed loaders the training loop is run on: two samples, in two
\* batches or in one
DriverLoaders ==
  {[n |-> 2, batch_size |-> b, fault |-> "none"] : b \in {1, 2}}

\* the cell of the training loop is about to run, on the same modules
InitDriver ==
  /\ output_size = OutputSize
  /\ model \in Modules(NFeature, output_size)
  /\ param = InitialParam
  /\ train_loader \in DriverLoaders
  /\ val_loader \in DriverLoaders
  /\ InitRest

(* ------------------------------- train -------------------------------- *)
\* train entered with total_loss left as an earlier call had it
TrainEnterStale(ld) ==
  /\ pc = "idle"
  /\ loader' = ld
  /\ pc' = "train"
  /\ calls' = calls + 1
  /\ val_loss' = 0
  /\ correct' = 0
  /\ training' = TRUE
  /\ FreshFrame
  /\ UNCHANGED <<objects, param, grad, buf, total_loss, sum_isfinite>>

\* train(epoch, criterion, model, optimizer, ld) is entered; the locals of
\* the function that ran before are gone
TrainEnter(ld) ==
  /\ pc = "idle"
  /\ loader' = ld
  /\ pc' = "train"
  /\ calls' = calls + 1
  /\ total_loss' = 0
  /\ sum_isfinite' = TRUE
  /\ val_loss' = 0
  /\ correct' = 0
  /\ training' = TRUE
  /\ FreshFrame
  /\ UNCHANGED <<objects, param, grad, buf>>

\* a call to train, on any loader
TrainCall ==
  /\ calls < MaxCalls
  /\ \E ld \in Loaders : TrainEnter(ld)
  /\ UNCHANGED driver

\* one turn of train's loop
TrainBatch ==
  /\ pc = "train"
  /\ batch_idx < NumBatches(loader)
  /\ LET tg == Targets(loader, batch_idx)
         out == Forward(model, Images(BatchLen(loader, batch_idx)))
         g0 == ZeroGrad(grad)
     IN  /\ target' = tg
         /\ output' = out
         /\ IF ~CriterionAccepts(out, tg)
            THEN /\ grad' = g0
                 /\ pc' = "idle"
                 /\ outcome' = Raised(out, tg)
                 /\ scores' = <<>>
                 /\ UNCHANGED <<param, buf, loss, loss_isfinite,
                                sum_isfinite, batch_grad, seen, total_loss,
                                batch_idx>>
            ELSE /\ scores' = <<>>
                 /\ \E r \in BatchResults :
                      /\ loss' = r.loss
                      /\ loss_isfinite' = r.finite
                      /\ batch_grad' = r.grad
                 /\ grad' = Backward(g0, batch_grad')
                 /\ buf' = [p \in ParamNames |->
                              MomentumBuffer(optimizer, buf[p],
                                DecayedGrad(optimizer, param[p], grad'[p]))]
                 /\ param' = [p \in ParamNames |->
                                SGDParam(optimizer, param[p], grad'[p], buf[p])]
                 /\ total_loss' = total_loss + loss'
                 /\ sum_isfinite' = (sum_isfinite /\ loss_isfinite')
                 /\ seen' = Append(seen,
                      Processed(batch_idx,
                                [loss |-> loss', finite |-> loss_isfinite'],
                                <<>>, tg))
                 /\ batch_idx' = batch_idx + 1
                 /\ UNCHANGED <<pc, outcome>>
  /\ UNCHANGED <<objects, driver, data, training, calls, loader, pred, val_loss,
                 correct,
                 accuracy, ret>>

\* return total_loss / len(loader.dataset)
TrainReturn ==
  /\ pc = "train"
  /\ batch_idx = NumBatches(loader)
  /\ pc' = "idle"
  /\ IF loader.n = 0
     THEN outcome' = "ZeroDivisionError" /\ UNCHANGED ret
     ELSE /\ outcome' = "returned"
          /\ ret' = <<FloatFraction(total_loss, sum_isfinite, loader.n)>>
  /\ UNCHANGED <<objects, driver, data, param, grad, buf, training, calls, loader,
                 batch_idx, output, scores, target, loss, loss_isfinite,
                 sum_isfinite, pred, batch_grad, seen, total_loss, val_loss,
                 correct, accuracy>>

(* ------------------------------ validate ------------------------------ *)
\* validate(criterion, model, ld) is entered, under torch.no_grad(); the
\* locals of the function that ran before are gone
ValidateEnter(ld) ==
  /\ pc = "idle"
  /\ loader' = ld
  /\ pc' = "validate"
  /\ calls' = calls + 1
  /\ val_loss' = 0
  /\ correct' = 0
  /\ sum_isfinite' = TRUE
  /\ total_loss' = 0
  /\ training' = FALSE
  /\ FreshFrame
  /\ UNCHANGED <<objects, param, grad, buf>>

\* a call to validate, on any loader
ValidateCall ==
  /\ calls < MaxCalls
  /\ \E ld \in Loaders : ValidateEnter(ld)
  /\ UNCHANGED driver

\* a validate loop that also runs optimizer.step()
ValidateBatchStepping ==
  /\ pc = "validate"
  /\ batch_idx < NumBatches(loader)
  /\ LET tg == Targets(loader, batch_idx)
         out == Forward(model, Images(BatchLen(loader, batch_idx)))
     IN  /\ target' = tg
         /\ output' = out
         /\ IF ~CriterionAccepts(out, tg)
            THEN /\ pc' = "idle"
                 /\ outcome' = Raised(out, tg)
                 /\ scores' = <<>>
                 /\ UNCHANGED <<loss, loss_isfinite, sum_isfinite, pred,
                                val_loss, correct, batch_idx, seen, param,
                                buf>>
            ELSE /\ \E sc \in [1..out.shape[1] -> ScoreRows] : scores' = sc
                 /\ \E l \in LossItems :
                      loss' = l.loss /\ loss_isfinite' = l.finite
                 /\ val_loss' = val_loss + loss'
                 /\ sum_isfinite' = (sum_isfinite /\ loss_isfinite')
                 /\ pred' = [i \in 1..Len(scores') |-> ArgMax(scores'[i])]
                 /\ correct' = correct + CountEq(pred', tg)
                 /\ seen' = Append(seen,
                      Processed(batch_idx,
                                [loss |-> loss', finite |-> loss_isfinite'],
                                scores', tg))
                 /\ batch_idx' = batch_idx + 1
                 /\ buf' = [p \in ParamNames |->
                              MomentumBuffer(optimizer, buf[p],
                                DecayedGrad(optimizer, param[p], grad[p]))]
                 /\ param' = [p \in ParamNames |->
                                SGDParam(optimizer, param[p], grad[p], buf[p])]
                 /\ UNCHANGED <<pc, outcome>>
  /\ UNCHANGED <<objects, driver, data, grad, training, calls, loader,
                 batch_grad, total_loss, accuracy, ret>>

\* one turn of validate's loop
ValidateBatch ==
  /\ pc = "validate"
  /\ batch_idx < NumBatches(loader)
  /\ LET tg == Targets(loader, batch_idx)
         out == Forward(model, Images(BatchLen(loader, batch_idx)))
     IN  /\ target' = tg
         /\ output' = out
         /\ IF ~CriterionAccepts(out, tg)
            THEN /\ pc' = "idle"
                 /\ outcome' = Raised(out, tg)
                 /\ scores' = <<>>
                 /\ UNCHANGED <<loss, loss_isfinite, sum_isfinite, pred,
                                val_loss, correct, batch_idx, seen>>
            ELSE /\ \E sc \in [1..out.shape[1] -> ScoreRows] : scores' = sc
                 /\ \E l \in LossItems :
                      loss' = l.loss /\ loss_isfinite' = l.finite
                 /\ val_loss' = val_loss + loss'
                 /\ sum_isfinite' = (sum_isfinite /\ loss_isfinite')
                 /\ pred' = [i \in 1..Len(scores') |-> ArgMax(scores'[i])]
                 /\ correct' = correct + CountEq(pred', tg)
                 /\ seen' = Append(seen,
                      Processed(batch_idx,
                                [loss |-> loss', finite |-> loss_isfinite'],
                                scores', tg))
                 /\ batch_idx' = batch_idx + 1
                 /\ UNCHANGED <<pc, outcome>>
  /\ UNCHANGED <<objects, driver, data, param, grad, buf, training, calls, loader,
                 batch_grad, total_loss, accuracy, ret>>

\* val_loss /= len(loader.dataset); accuracy = ...; return val_loss
ValidateReturn ==
  /\ pc = "validate"
  /\ batch_idx = NumBatches(loader)
  /\ pc' = "idle"
  /\ IF loader.n = 0
     THEN outcome' = "ZeroDivisionError" /\ UNCHANGED <<accuracy, ret>>
     ELSE /\ outcome' = "returned"
          /\ accuracy' = Fraction(100 * correct, loader.n)
          /\ ret' = <<FloatFraction(val_loss, sum_isfinite, loader.n)>>
  /\ UNCHANGED <<objects, driver, data, param, grad, buf, training, calls, loader,
                 batch_idx, output, scores, target, loss, loss_isfinite,
                 sum_isfinite, pred, batch_grad, seen, total_loss, val_loss,
                 correct>>

(* ------------------------- qualitative examples ----------------------- *)
\* data, target = next(iter(val_loader)); output = model(data);
\* predictions = np.argmax(output, axis=1), under torch.no_grad()
Predict ==
  /\ pc = "idle"
  /\ \E ld \in Loaders :
       /\ ld.n > 0 /\ ld.fault = "none"
       /\ loader' = ld
       /\ target' = Targets(ld, 0)
       /\ \E px \in [1..BatchLen(ld, 0) -> Pixels],
               out \in {Forward(model, Images(BatchLen(ld, 0)))} :
            /\ data' = px
            /\ output' = out
            /\ IF out.ok
               THEN /\ \E lg \in {[x \in Pixels |-> Logit(model, param, x)]} :
                         scores' =
                           [r \in 1..out.shape[1] |->
                              [c \in 1..out.shape[2] |->
                                 lg[px[(r - 1) \div (out.shape[1] \div Len(px)) + 1]]]]
                    /\ pred' = [r \in 1..Len(scores') |-> ArgMax(scores'[r])]
                    /\ outcome' = "predicted"
               ELSE /\ scores' = <<>>
                    /\ pred' = <<>>
                    /\ outcome' = "RuntimeError"
  /\ UNCHANGED <<objects, driver, param, grad, buf, training, pc, calls,
                 batch_idx, loss, loss_isfinite, sum_isfinite, batch_grad, seen,
                 total_loss, val_loss, correct, accuracy, ret>>

(* ---------------------------- training loop -------------------------- *)
\* for epoch in range(10): train_loss = train(..., train_loader) is entered
DriverTrain ==
  /\ dpc = "loop"
  /\ epoch < Epochs
  /\ epoch < MaxEpochs
  /\ TrainEnter(train_loader)
  /\ dpc' = "train"
  /\ UNCHANGED <<train_loader, val_loader, epoch, train_loss, losses>>

\* train has returned: train_loss is bound, and
\* val_loss = validate(criterion, model, val_loader) is entered
DriverValidate ==
  /\ dpc = "train"
  /\ outcome = "returned"
  /\ train_loss' = ret[1]
  /\ ValidateEnter(val_loader)
  /\ dpc' = "validate"
  /\ UNCHANGED <<train_loader, val_loader, epoch, losses>>

\* validate has returned: losses["train"].append(train_loss);
\* losses["val"].append(val_loss); the loop goes to its next epoch
DriverAppend ==
  /\ dpc = "validate"
  /\ pc = "idle"
  /\ outcome = "returned"
  /\ losses' = [train |-> Append(losses.train, train_loss),
                val |-> Append(losses.val, ret[1])]
  /\ epoch' = epoch + 1
  /\ dpc' = "loop"
  /\ UNCHANGED <<objects, param, grad, buf, training, pc, calls, loader,
                 data, batch_idx, output, scores, target, loss,
                 loss_isfinite, sum_isfinite, pred, batch_grad, seen,
                 total_loss, val_loss, correct, accuracy, ret, outcome,
                 train_loader, val_loader, train_loss>>

\* the exception that ended train or validate leaves the loop and the cell
DriverRaise ==
  /\ dpc \in {"train", "validate"}
  /\ pc = "idle"
  /\ outcome \notin {"returned", "running"}
  /\ dpc' = "raised"
  /\ UNCHANGED <<objects, param, grad, buf, training, pc, calls, loader,
                 data, batch_idx, output, scores, target, loss,
                 loss_isfinite, sum_isfinite, pred, batch_grad, seen,
                 total_loss, val_loss, correct, accuracy, ret, outcome,
                 train_loader, val_loader, epoch, train_loss, losses>>

(* --------------------------- specifications --------------------------- *)
Next ==
  \/ TrainCall
  \/ TrainBatch
  \/ TrainReturn
  \/ ValidateCall
  \/ ValidateBatch
  \/ ValidateReturn

Spec == Init /\ [][Next]_vars

SpecModule == InitModule /\ [][Next]_vars

\* forward alone, applied to batches of images
NextForward == Predict

SpecForward == InitForward /\ [][NextForward]_vars

\* the training loop, calling train and validate
NextDriver ==
  \/ DriverTrain
  \/ TrainBatch
  \/ TrainReturn
  \/ DriverValidate
  \/ ValidateBatch
  \/ ValidateReturn
  \/ DriverAppend
  \/ DriverRaise

SpecDriver == InitDriver /\ [][NextDriver]_vars

(* ---------------------------- properties ------------------------------ *)
\* a call has run forward on a well-formed batch of Len(target) images
ForwardApplied ==
  outcome # "none" /\ Len(target) > 0 /\ loader.fault = "none"

\* C1: forward applied to a (B, 1, 28, 28) tensor returns a tensor of shape
\* exactly (B, output_size), whatever B, n_feature and output_size are.
C1_ForwardShape ==
  ForwardApplied =>
    output.ok /\ output.shape = <<Len(target), output_size>>

\* C2: on a 28x28 input the spatial sizes after conv1, pool, conv2, pool are
\* 24, 12, 8, 4, and both the width forward flattens to and the input width
\* declared for fc1 equal n_feature * 4 * 4.
C2_FlattenWidth ==
  /\ ConvOut(ImageSize, KernelSize, 0, 1) = 24
  /\ ConvOut(24, PoolSize, 0, PoolSize) = 12
  /\ ConvOut(12, KernelSize, 0, 1) = 8
  /\ ConvOut(8, PoolSize, 0, PoolSize) = 4
  /\ Features(model, Images(1)).shape = <<1, model.n_feature, 4, 4>>
  /\ model.flat = model.n_feature * 4 * 4
  /\ model.fc1.in = model.n_feature * 4 * 4

\* C3: whenever the input width declared for fc1 differs from the true
\* flattened width of what the second pooling step hands over, forward ends
\* in a shape error instead of regrouping the elements and returning scores.
C3_ShapeMismatchRaised ==
  (ForwardApplied /\ model.fc1.in # FlatWidth(model)) => ~output.ok

TrainEnded == training /\ pc = "idle" /\ outcome # "none"

TrainReturned == training /\ pc = "idle" /\ outcome = "returned"

ValidateReturned == ~training /\ pc = "idle" /\ outcome = "returned"

\* train's loop has just run its optimizer step on one more batch
StepTaken == pc = "train" /\ Len(seen') = Len(seen) + 1

RECURSIVE SumSizes(_)
SumSizes(sq) == IF sq = <<>> THEN 0 ELSE Head(sq).size + SumSizes(Tail(sq))

RECURSIVE WeightedLoss(_)
WeightedLoss(sq) ==
  IF sq = <<>> THEN 0
  ELSE Head(sq).loss * Head(sq).size + WeightedLoss(Tail(sq))

\* C4: a call to validate leaves every parameter and every momentum buffer
\* as it found them; they change only inside train.
C4_ValidateKeepsParameters ==
  [][pc # "train" => (param' = param /\ buf' = buf)]_vars

\* validate has processed a batch with parameters that train had changed
C4_Witness == pc = "validate" /\ batch_idx > 0 /\ param # InitialParam

\* C5: a call to train processes every batch the loader yields exactly once,
\* in the loader's order, and ends only after the last one.
C5_EveryBatchOnce ==
  TrainEnded =>
    [i \in 1..Len(seen) |-> seen[i].idx]
      = [i \in 1..NumBatches(loader) |-> i - 1]

\* C6: at every optimizer step of train the gradient each parameter holds is
\* the gradient of the current batch's loss alone, and the update is the one
\* that gradient gives: nothing of an earlier batch is carried into it.
C6_GradientOfCurrentBatch ==
  [][StepTaken =>
       /\ grad' = batch_grad'
       /\ \A p \in ParamNames :
            param'[p] = SGDParam(optimizer, param[p], batch_grad'[p], buf[p])]_vars

\* train has stepped on the second batch of its second call
C6_Witness ==
  /\ pc = "train" /\ calls = 2 /\ batch_idx = 2
  /\ grad = batch_grad /\ param # InitialParam

\* C7: the value train returns is the sum over the batches of
\* (batch loss * batch size) divided by the total number of samples.
C7_WeightedMeanLoss ==
  (TrainReturned /\ sum_isfinite) =>
    /\ Len(ret) = 1
    /\ ret[1].num * SumSizes(seen) = WeightedLoss(seen) * ret[1].den

\* C8: validate returns the pair (mean loss, accuracy), with
\* accuracy = 100 * correct / total-samples and mean loss = total loss /
\* total-samples.
C8_ReturnsLossAndAccuracy ==
  (ValidateReturned /\ sum_isfinite) =>
    ret = <<Fraction(val_loss, SumSizes(seen)),
            Fraction(100 * correct, SumSizes(seen))>>

\* class c is the first class of row with a maximal score
IsFirstMax(row, c) ==
  /\ c + 1 \in 1..Len(row)
  /\ \A j \in 1..Len(row) : row[j] <= row[c + 1]
  /\ \A j \in 1..c : row[j] < row[c + 1]

\* the samples of the processed batches whose argmax score index is their label
RECURSIVE Hits(_)
Hits(sq) ==
  IF sq = <<>> THEN 0
  ELSE Cardinality({i \in 1..Head(sq).size :
                      IsFirstMax(Head(sq).scores[i], Head(sq).target[i])})
       + Hits(Tail(sq))

\* C9: validate's correct count is the number of samples, over all batches of
\* the pass, whose argmax score index equals their label, and never exceeds
\* the number of samples; the accuracy is 100 * correct / total-samples:
\* exactly 100 when every prediction is correct, exactly 0 when none is.
C9_Accuracy ==
  /\ (pc = "validate" \/ ValidateReturned) =>
       /\ correct = Hits(seen)
       /\ correct <= SumSizes(seen)
  /\ ValidateReturned =>
       /\ SumSizes(seen) = loader.n
       /\ accuracy = Fraction(100 * correct, loader.n)
       /\ Hits(seen) = loader.n => accuracy.num = 100 * accuracy.den
       /\ Hits(seen) = 0 => accuracy.num = 0
       /\ 0 <= accuracy.num /\ accuracy.num <= 100 * accuracy.den

\* validate returned after two batches with every prediction correct
C9_Witness ==
  /\ ValidateReturned /\ Len(seen) = 2 /\ Hits(seen) = loader.n
  /\ accuracy = Fraction(300, 3)

\* the claim's v for PyTorch's momentum_buffer b: v = - lr * b, 0 while absent
Velocity(o, b) == IF b = <<>> THEN 0 ELSE -(o.lr * b[1])

\* C10: every optimizer step of train applies, per parameter,
\* v = momentum*v - lr*(grad + weight_decay*param); param += v, where v is
\* zero before the first step and is carried unchanged between steps and
\* between calls; with momentum = 0 and weight_decay = 0 a step changes the
\* parameter by exactly -lr * grad.
C10_SGDUpdateRule ==
  /\ [](calls = 0 => \A p \in ParamNames : Velocity(optimizer, buf[p]) = 0)
  /\ [][IF StepTaken
        THEN \A p \in ParamNames :
               LET v == optimizer.momentum * Velocity(optimizer, buf[p])
                          - optimizer.lr * (grad'[p]
                              + optimizer.weight_decay * param[p])
               IN  /\ param'[p] = param[p] + v
                   /\ optimizer.momentum # 0 =>
                        Velocity(optimizer, buf'[p]) = v
                   /\ (optimizer.momentum = 0 /\ optimizer.weight_decay = 0)
                        => param'[p] - param[p] = -(optimizer.lr * grad'[p])
        ELSE param' = param /\ buf' = buf]_vars

\* the first step of a second call of train used a buffer an earlier call left
C10_Witness ==
  /\ pc = "train" /\ calls = 2 /\ batch_idx = 1
  /\ optimizer.momentum # 0 /\ buf["fc1.bias"] # <<>>
  /\ buf["fc1.bias"][1] #
       DecayedGrad(optimizer,
                   param["fc1.bias"] + optimizer.lr * buf["fc1.bias"][1],
                   grad["fc1.bias"])

\* the batch the running call stopped on, or the last one it processed
CallEnded == pc = "idle" /\ outcome # "none"

\* C11: in train and in validate, a batch whose images and labels differ in
\* number, or that holds a label outside [0, num_classes), ends the pass with
\* an InvalidBatch error raised before anything is computed on that batch:
\* no forward pass was run on it.
C11_InvalidBatchRejected ==
  (CallEnded /\ loader.fault # "none") =>
    (outcome = "InvalidBatch" /\ output = Tensor(<<>>))

\* C12: whenever the loss of some batch of train or validate is NaN or
\* Infinity, the call reports it as a NonFiniteLoss outcome, distinct from a
\* normal return: it is never folded into the running total and returned as
\* an ordinary mean loss.
C12_NonFiniteLossReported ==
  (CallEnded /\ \E i \in 1..Len(seen) : ~seen[i].finite) =>
    outcome = "NonFiniteLoss"

ZeroParam == [p \in ParamNames |-> 0]

\* C13: with every weight and every bias of conv1, conv2, fc1 and fc2 equal
\* to zero, forward returns for every input batch score vectors whose entries
\* are all zero, whatever the pixel values are.
C13_ZeroParametersZeroScores ==
  (outcome = "predicted" /\ param = ZeroParam) =>
    /\ Len(scores) >= Len(data)
    /\ \A r \in 1..Len(scores) :
         \A c \in 1..Len(scores[r]) : scores[r][c] = 0

\* forward has scored two images of different, nonzero pixel values with
\* all-zero parameters
C13_Witness ==
  /\ outcome = "predicted" /\ param = ZeroParam
  /\ Len(data) = 2 /\ data[1] # data[2] /\ data[1] # 0 /\ data[2] # 0
  /\ scores[1] = scores[Len(scores)]
  /\ Len(scores[1]) = NumClasses

RECURSIVE SumLoss(_)
SumLoss(sq) == IF sq = <<>> THEN 0 ELSE Head(sq).loss + SumLoss(Tail(sq))

AllFinite(sq) == \A i \in 1..Len(sq) : sq[i].finite

\* C14: the running accumulators (total_loss in train; val_loss and correct
\* in validate) are zero when a call starts and are updated exactly once per
\* batch, so the value a call returns is a function of the batches of that
\* call alone, never of what an earlier call to train or validate left in an
\* accumulator.
C14_AccumulatorsPerCall ==
  /\ pc \in {"train", "validate"} =>
       /\ Len(seen) = batch_idx
       /\ batch_idx = 0 => (total_loss = 0 /\ val_loss = 0 /\ correct = 0)
  /\ (pc = "train" \/ TrainEnded) =>
       /\ total_loss = SumLoss(seen)
       /\ sum_isfinite = AllFinite(seen)
  /\ (pc = "validate" \/ ValidateReturned) =>
       /\ val_loss = SumLoss(seen)
       /\ sum_isfinite = AllFinite(seen)
       /\ correct = Hits(seen)
  /\ (TrainReturned \/ ValidateReturned) =>
       ret = <<FloatFraction(SumLoss(seen), AllFinite(seen), loader.n)>>

\* the second call is a train that has added its first batch's loss alone,
\* after a first call to train that left a total_loss of 3 or more
C14_Witness ==
  /\ pc = "train" /\ calls = 2 /\ batch_idx = 1
  /\ optimizer.momentum = 0 /\ param["conv1.weight"] = 3
  /\ total_loss = 3 /\ seen[1].loss = 3

\* where the training loop stands among its calls, and how long its lists are
LoopOrder ==
  /\ Len(losses.train) = epoch
  /\ Len(losses.val) = epoch
  /\ dpc = "loop" => (pc = "idle" /\ calls = 2 * epoch)
  /\ dpc = "train" => (pc \in {"idle", "train"} /\ calls = 2 * epoch + 1)
  /\ dpc = "validate" =>
       (pc \in {"idle", "validate"} /\ calls = 2 * epoch + 2)

\* validate is entered on what train returned and left, and an epoch ends by
\* appending what its two calls returned
LoopSteps ==
  /\ (dpc = "train" /\ dpc' = "validate") =>
       /\ TrainReturned
       /\ train_loss' = ret[1]
       /\ param' = param /\ buf' = buf
  /\ pc = "validate" => param' = param
  /\ epoch' # epoch =>
       /\ ValidateReturned
       /\ epoch' = epoch + 1
       /\ losses'.train = Append(losses.train, train_loss)
       /\ losses'.val = Append(losses.val, ret[1])

\* no epoch is cut short by an exception
LoopCompletes == dpc # "raised"

\* C15: in the training loop every epoch runs one complete train pass and
\* then one complete validate pass: the validate of an epoch sees the
\* parameters its train produced and runs before the next epoch's train, and
\* after k completed epochs losses["train"] and losses["val"] each hold
\* exactly k entries, entry i being what the i-th train and the i-th
\* validate call returned.
C15_EpochsTrainThenValidate ==
  /\ [](LoopOrder /\ LoopCompletes)
  /\ [][LoopSteps]_vars

====
